---- MODULE Spec2Model ----
(***************************************************************************)
(* Model of src/relation_extraction_model/src/utils/relation_extraction.py *)
(*                                                                         *)
(*   extract_relations_from_model_output  the triplet parser: a loop over  *)
(*       the whitespace-separated tokens of one decoded candidate          *)
(*   run_relation_extraction              span planning, window slicing    *)
(*       and the batch loop that polls the cancellation token              *)
(*                                                                         *)
(* A string is a sequence of atoms.  An atom is a blank (SP), one of the   *)
(* marker literals the code compares or replaces, or an ordinary word      *)
(* piece.  Atoms that touch without a blank form one token, as in          *)
(* "<s><triplet>" or "B</s>".                                               *)
(***************************************************************************)
EXTENDS Integers, Sequences, FiniteSets, TLC

VARIABLES
    extract,            \* the frame of extract_relations_from_model_output
    pc,                 \* position of run_relation_extraction
    inputs,             \* inputs["input_ids"][0]
    span_length, num_tokens, num_spans, overlap,
    spans_boundaries, start, i,
    tensor_ids,
    batch_size, batch_start, batch_inputs, batch_decoded_preds,
    relations,
    result,             \* what the call hands to its caller
    cancellation_token, \* the flag behind is_cancelled()
    trace               \* history: the polls and generate calls, in order

vars == <<extract, pc, inputs, span_length, num_tokens, num_spans, overlap,
          spans_boundaries, start, i, tensor_ids, batch_size, batch_start,
          batch_inputs, batch_decoded_preds, relations, result,
          cancellation_token, trace>>

runVars == <<pc, inputs, span_length, num_tokens, num_spans, overlap,
             spans_boundaries, start, i, tensor_ids, batch_size, batch_start,
             batch_inputs, batch_decoded_preds, relations, result,
             cancellation_token, trace>>

----------------------------------------------------------------------------
(* Bounds *)

MaxLen == 6          \* raw words in an arbitrary candidate text
MaxRun == 2          \* ordinary tokens in one run of a well-formed text
MaxGroups == 2       \* <triplet> groups in a grouped text
MaxPairs == 2        \* <subj> ... <obj> ... pairs in one group
MaxTokens == 5       \* tokens of a small document
MaxSpanLength == 3   \* span lengths tried besides the configured one
MaxBatchSize == 2    \* settings.batch_size ranges over 1..MaxBatchSize
MaxShift == 1        \* generate's answers range over MaxShift + 1 patterns

----------------------------------------------------------------------------
(* Strings *)

SP == " "
TRIPLET == <<"<triplet>">>
SUBJ == <<"<subj>">>
OBJ == <<"<obj>">>

Min(a, b) == IF a < b THEN a ELSE b
Max(a, b) == IF a > b THEN a ELSE b

\* str.strip(): drop the blanks at both ends
StripStr(s) ==
    LET keep == {k \in 1..Len(s) : s[k] # SP}
    IN  IF keep = {} THEN <<>>
        ELSE LET lo == CHOOSE k \in keep : \A m \in keep : k <= m
                 hi == CHOOSE k \in keep : \A m \in keep : k >= m
             IN  SubSeq(s, lo, hi)

\* str.replace(atom, ""): every occurrence of the literal is removed
Replace(s, atom) == SelectSeq(s, LAMBDA a : a # atom)

\* text.replace("<s>", "").replace("<pad>", "").replace("</s>", "")
ReplaceSpecial(s) == Replace(Replace(Replace(s, "<s>"), "<pad>"), "</s>")

RECURSIVE SplitFrom(_, _, _)
SplitFrom(s, k, cur) ==
    IF k > Len(s)
    THEN IF cur = <<>> THEN <<>> ELSE <<cur>>
    ELSE IF s[k] = SP
         THEN IF cur = <<>> THEN SplitFrom(s, k + 1, <<>>)
              ELSE <<cur>> \o SplitFrom(s, k + 1, <<>>)
         ELSE SplitFrom(s, k + 1, Append(cur, s[k]))

\* str.split(): the maximal blank-free pieces, in order
Split(s) == SplitFrom(s, 1, <<>>)

----------------------------------------------------------------------------
(* extract_relations_from_model_output *)

\* type and tail exchanged
TripletSwapped(f) ==
    [head |-> StripStr(f.subject),
     type |-> StripStr(f.object_),
     tail |-> StripStr(f.relation)]

Triplet(f) ==
    [head |-> StripStr(f.subject),
     type |-> StripStr(f.relation),
     tail |-> StripStr(f.object_)]

\* the loop starts in subject mode
NewFrameInSubjectMode(text) ==
    [text      |-> StripStr(text),
     tokens    |-> Split(ReplaceSpecial(StripStr(text))),
     pos       |-> 1,
     current   |-> "t",
     subject   |-> <<>>,
     relation  |-> <<>>,
     object_   |-> <<>>,
     relations |-> <<>>,
     pc        |-> "loop"]

\* lines 12-16: the locals before the loop
NewFrame(text) ==
    [text      |-> StripStr(text),
     tokens    |-> Split(ReplaceSpecial(StripStr(text))),
     pos       |-> 1,
     current   |-> "x",
     subject   |-> <<>>,
     relation  |-> <<>>,
     object_   |-> <<>>,
     relations |-> <<>>,
     pc        |-> "loop"]

\* <triplet> starts a new subject without emitting the pending triplet
OnTripletNoFlush(f) ==
    [f EXCEPT !.current = "t",
              !.relation = <<>>,
              !.subject = <<>>,
              !.pos = f.pos + 1]

\* lines 18-29
OnTriplet(f) ==
    [f EXCEPT !.current = "t",
              !.relations = IF f.relation # <<>>
                            THEN Append(f.relations, Triplet(f))
                            ELSE f.relations,
              !.relation = <<>>,
              !.subject = <<>>,
              !.pos = f.pos + 1]

\* <subj> clears the relation buffer after its flush, as <triplet> does
OnSubjClearsRelation(f) ==
    [f EXCEPT !.current = "s",
              !.relations = IF f.relation # <<>>
                            THEN Append(f.relations, Triplet(f))
                            ELSE f.relations,
              !.relation = <<>>,
              !.object_ = <<>>,
              !.pos = f.pos + 1]

\* lines 30-40
OnSubj(f) ==
    [f EXCEPT !.current = "s",
              !.relations = IF f.relation # <<>>
                            THEN Append(f.relations, Triplet(f))
                            ELSE f.relations,
              !.object_ = <<>>,
              !.pos = f.pos + 1]

\* lines 41-43
OnObj(f) ==
    [f EXCEPT !.current = "o",
              !.relation = <<>>,
              !.pos = f.pos + 1]

\* lines 44-50
OnOther(f, token) ==
    [f EXCEPT !.subject  = IF f.current = "t" THEN f.subject \o <<SP>> \o token
                           ELSE f.subject,
              !.object_  = IF f.current = "s" THEN f.object_ \o <<SP>> \o token
                           ELSE f.object_,
              !.relation = IF f.current = "o" THEN f.relation \o <<SP>> \o token
                           ELSE f.relation,
              !.pos = f.pos + 1]

\* the final flush under the condition of the mid-stream flushes
AtEndRelationOnly(f) ==
    [f EXCEPT !.relations = IF f.relation # <<>>
                            THEN Append(f.relations, Triplet(f))
                            ELSE f.relations,
              !.pc = "returned"]

\* lines 51-55
AtEnd(f) ==
    [f EXCEPT !.relations = IF f.subject # <<>> /\ f.relation # <<>>
                               /\ f.object_ # <<>>
                            THEN Append(f.relations, Triplet(f))
                            ELSE f.relations,
              !.pc = "returned"]

\* one iteration of the for loop at line 17
LoopStep(f) ==
    LET token == f.tokens[f.pos]
    IN  IF token = TRIPLET THEN OnTriplet(f)
        ELSE IF token = SUBJ THEN OnSubj(f)
        ELSE IF token = OBJ THEN OnObj(f)
        ELSE OnOther(f, token)

RECURSIVE RunFrame(_)
RunFrame(f) ==
    IF f.pos > Len(f.tokens) THEN AtEnd(f) ELSE RunFrame(LoopStep(f))

\* the whole call, as the batch loop uses it at line 136
extract_relations_from_model_output(text) == RunFrame(NewFrame(text)).relations

----------------------------------------------------------------------------
(* Inputs of the parser *)

RECURSIVE JoinSp(_)
\* the words, separated by single blanks
JoinSp(ws) ==
    IF ws = <<>> THEN <<>>
    ELSE IF Len(ws) = 1 THEN ws[1]
    ELSE ws[1] \o <<SP>> \o JoinSp(Tail(ws))

SeqsUpTo(S, n) == UNION {[1..k -> S] : k \in 0..n}

RawWords == {TRIPLET, SUBJ, OBJ, <<"A">>, <<"B", "</s>">>, <<"<s>">>}

ArbitraryTexts == {JoinSp(ws) : ws \in SeqsUpTo(RawWords, MaxLen)}

Ordinary == {<<"A">>, <<"B">>}

Runs == SeqsUpTo(Ordinary, MaxRun) \ {<<>>}

RoundTrip(H, T, R) == <<TRIPLET>> \o H \o <<SUBJ>> \o T \o <<OBJ>> \o R

\* the stream as the tokenizer decodes it: "<s><triplet> A <subj> B <obj> C</s><pad>"
Decoded(ws) == <<SP, "<s>">> \o JoinSp(ws) \o <<"</s>", "<pad>", SP>>

RoundTripTexts ==
    UNION {{JoinSp(RoundTrip(H, T, R)), Decoded(RoundTrip(H, T, R))} :
           <<H, T, R>> \in Runs \X Runs \X Runs}

\* the ordinary token used at the n-th place: A and B in turn
Pick(n) == IF n % 2 = 0 THEN <<"A">> ELSE <<"B">>

RECURSIVE PairsFrom(_, _, _)
\* the pairs j..p of a group: <subj> T <obj> R with T and R different
PairsFrom(j, p, turn) ==
    IF j > p THEN <<>>
    ELSE <<SUBJ, Pick(j + turn), OBJ, Pick(j + turn + 1)>>
             \o PairsFrom(j + 1, p, turn)

Group(h, p, turn) == <<TRIPLET, h>> \o PairsFrom(1, p, turn)

GroupVariants ==
    {Group(h, p, turn) : h \in Ordinary, p \in 1..MaxPairs, turn \in 0..1}

RECURSIVE Flatten(_)
Flatten(seqs) == IF seqs = <<>> THEN <<>> ELSE Head(seqs) \o Flatten(Tail(seqs))

\* streams of 1..MaxGroups groups, plain and as the tokenizer decodes them
GroupTexts ==
    UNION {{JoinSp(Flatten(gs)), Decoded(Flatten(gs))} :
           gs \in SeqsUpTo(GroupVariants, MaxGroups) \ {<<>>}}

Texts == ArbitraryTexts \cup RoundTripTexts \cup GroupTexts

IdleFrame == [NewFrame(<<>>) EXCEPT !.pc = "idle"]

----------------------------------------------------------------------------
(* The parser, one loop iteration per step *)

AtToken(tok) ==
    /\ extract.pc = "loop"
    /\ extract.pos <= Len(extract.tokens)
    /\ extract.tokens[extract.pos] = tok

ReadTriplet ==
    /\ AtToken(TRIPLET)
    /\ extract' = OnTriplet(extract)
    /\ UNCHANGED runVars

ReadSubj ==
    /\ AtToken(SUBJ)
    /\ extract' = OnSubj(extract)
    /\ UNCHANGED runVars

ReadObj ==
    /\ AtToken(OBJ)
    /\ extract' = OnObj(extract)
    /\ UNCHANGED runVars

ReadOther ==
    /\ extract.pc = "loop"
    /\ extract.pos <= Len(extract.tokens)
    /\ extract.tokens[extract.pos] \notin {TRIPLET, SUBJ, OBJ}
    /\ extract' = OnOther(extract, extract.tokens[extract.pos])
    /\ UNCHANGED runVars

EndOfStream ==
    /\ extract.pc = "loop"
    /\ extract.pos > Len(extract.tokens)
    /\ extract' = AtEnd(extract)
    /\ UNCHANGED runVars

RunIdle ==
    /\ pc = "idle"
    /\ inputs = <<>>
    /\ span_length = 0
    /\ num_tokens = 0
    /\ num_spans = 0
    /\ overlap = 0
    /\ spans_boundaries = <<>>
    /\ start = 0
    /\ i = 0
    /\ tensor_ids = <<>>
    /\ batch_size = 0
    /\ batch_start = 0
    /\ batch_inputs = <<>>
    /\ batch_decoded_preds = <<>>
    /\ relations = <<>>
    /\ result = [kind |-> "none", value |-> <<>>]
    /\ cancellation_token = FALSE
    /\ trace = <<>>

InitParser ==
    /\ \E text \in Texts : extract = NewFrame(text)
    /\ RunIdle

NextParser ==
    \/ ReadTriplet
    \/ ReadSubj
    \/ ReadObj
    \/ ReadOther
    \/ EndOfStream

SpecParser == InitParser /\ [][NextParser]_vars

----------------------------------------------------------------------------
(* run_relation_extraction: helpers *)

num_return_sequences == 10

\* ids the tokenizer gives to <s>, <pad> and </s>
BOS == 0
PAD == 1
EOS == 2
SpecialIds == {BOS, PAD, EOS}

\* tokenizer([text]): <s>, the content tokens, </s>; content ids are distinct
TokenIds(n) ==
    [k \in 1..n |-> IF k = 1 THEN BOS ELSE IF k = n THEN EOS ELSE k + 1]

\* tokenizer.decode(ids, skip_special_tokens=True)
Decode(ids) == SelectSeq(ids, LAMBDA t : t \notin SpecialIds)

\* rounds up also when b divides a
CeilAlwaysUp(a, b) == (a \div b) + 1

\* math.ceil(a / b) for a >= 0, b > 0
Ceil(a, b) == (a + b - 1) \div b

\* seq[lo:hi] as Python slices: a negative offset counts from the end and
\* offsets outside the sequence are clipped
PySlice(seq, lo, hi) ==
    LET n  == Len(seq)
        l0 == IF lo < 0 THEN Max(lo + n, 0) ELSE Min(lo, n)
        h0 == IF hi < 0 THEN Max(hi + n, 0) ELSE Min(hi, n)
    IN  SubSeq(seq, l0 + 1, h0)

\* overlap forced to 0 for a single span
OverlapZeroForOneSpan(spans, length, tokens) ==
    IF spans <= 1 THEN 0 ELSE Ceil(spans * length - tokens, spans - 1)

\* the overlap rounded down
OverlapRoundedDown(spans, length, tokens) ==
    (spans * length - tokens) \div Max(spans - 1, 1)

\* line 66
Overlap(spans, length, tokens) ==
    Ceil(spans * length - tokens, Max(spans - 1, 1))

\* the boundary without the span_length * i offset
BoundaryFromStart(st, length, k) == <<st, st + length>>

\* lines 74-76: the boundary appended in iteration k with the running start
Boundary(st, length, k) == <<st + length * k, st + length * (k + 1)>>

\* torch.stack: a non-empty list of tensors of one size
Stackable(tensors) ==
    /\ tensors # <<>>
    /\ \A a, b \in 1..Len(tensors) : Len(tensors[a]) = Len(tensors[b])

\* the decoded candidates generate may answer with (skip_special_tokens=False)
CandidateTexts ==
    << Decoded(<<TRIPLET, <<"A">>, SUBJ, <<"B">>, OBJ, <<"C">> >>),
       <<"<s>", "</s>", "<pad>", "<pad>">>,
       Decoded(<<TRIPLET, <<"A">>, <<"B">>, SUBJ, <<"C">>, OBJ, <<"D">>,
                 SUBJ, <<"E">>, OBJ, <<"F">> >>),
       Decoded(<<TRIPLET, <<"A">>, SUBJ, <<"B">> >>) >>

\* rows * num_return_sequences candidates, row-major
Candidates(rows, shift) ==
    [p \in 1..(rows * num_return_sequences) |->
        CandidateTexts[((p - 1 + shift) % Len(CandidateTexts)) + 1]]

\* lines 137-140
WithMeta(relation, current_span_text) ==
    [head |-> relation.head, type |-> relation.type, tail |-> relation.tail,
     meta |-> [information |-> current_span_text]]

\* line 131: the row of batch_inputs the candidate at position k belongs to
RowOf(k) == k \div num_return_sequences

\* the row looked up in the list of all windows instead of the batch
CandidateRelationsOfDocumentRow(batch, preds, k) ==
    LET current_span_input_ids == tensor_ids[RowOf(k) + 1]
        current_span_text == Decode(current_span_input_ids)
        current_relations == extract_relations_from_model_output(preds[k + 1])
    IN  [r \in 1..Len(current_relations) |->
            WithMeta(current_relations[r], current_span_text)]

\* lines 130-140: the relations of the candidate at position k (from 0)
CandidateRelations(batch, preds, k) ==
    LET current_span_input_ids == batch[RowOf(k) + 1]
        current_span_text == Decode(current_span_input_ids)
        current_relations == extract_relations_from_model_output(preds[k + 1])
    IN  [r \in 1..Len(current_relations) |->
            WithMeta(current_relations[r], current_span_text)]

RECURSIVE ProcessFrom(_, _, _)
\* lines 129-142: what the loop over the candidates extends relations by
ProcessFrom(batch, preds, k) ==
    IF k >= Len(preds) THEN <<>>
    ELSE CandidateRelations(batch, preds, k) \o ProcessFrom(batch, preds, k + 1)

PollEvent(answer) ==
    [op |-> "poll", batch_start |-> batch_start, cancelled |-> answer,
     input_ids |-> <<>>, preds |-> <<>>]

GenerateEvent(preds) ==
    [op |-> "generate", batch_start |-> batch_start, cancelled |-> FALSE,
     input_ids |-> batch_inputs, preds |-> preds]

----------------------------------------------------------------------------
(* run_relation_extraction: steps *)

planVars == <<span_length, inputs, batch_size, extract, cancellation_token,
              trace>>

\* lines 64-71
ComputeSpans ==
    /\ pc = "plan"
    /\ num_tokens' = Len(inputs)
    /\ num_spans' = Ceil(Len(inputs), span_length)
    /\ overlap' = Overlap(Ceil(Len(inputs), span_length), span_length,
                          Len(inputs))
    /\ spans_boundaries' = <<>>
    /\ start' = 0
    /\ relations' = <<>>
    /\ i' = 0
    /\ pc' = "spans"
    /\ UNCHANGED <<planVars, tensor_ids, batch_start, batch_inputs,
                   batch_decoded_preds, result>>

\* lines 73-77, one iteration
AppendSpan ==
    /\ pc = "spans"
    /\ i < num_spans
    /\ spans_boundaries' = Append(spans_boundaries,
                                  Boundary(start, span_length, i))
    /\ start' = start - overlap
    /\ i' = i + 1
    /\ UNCHANGED <<planVars, pc, num_tokens, num_spans, overlap, tensor_ids,
                   batch_start, batch_inputs, batch_decoded_preds, relations,
                   result>>

\* lines 80-92, and the entry of the loop at line 106
SliceWindows ==
    /\ pc = "spans"
    /\ i >= num_spans
    /\ LET sliced == [k \in 1..Len(spans_boundaries) |->
                         PySlice(inputs, spans_boundaries[k][1],
                                 spans_boundaries[k][2])]
       IN  /\ tensor_ids' = sliced
           /\ IF Stackable(sliced)
              THEN /\ pc' = "poll"
                   /\ result' = result
              ELSE /\ pc' = "done"
                   /\ result' = [kind |-> "raised", value |-> "RuntimeError"]
    /\ batch_start' = 0
    /\ UNCHANGED <<planVars, num_tokens, num_spans, overlap,
                   spans_boundaries, start, i, batch_inputs,
                   batch_decoded_preds, relations>>

loopVars == <<extract, inputs, span_length, num_tokens, num_spans, overlap,
              spans_boundaries, start, i, tensor_ids, batch_size>>

\* the batch is started whatever is_cancelled() answers
PollIgnoringAnswer ==
    /\ pc = "poll"
    /\ batch_start < Len(tensor_ids)
    /\ trace' = Append(trace, PollEvent(cancellation_token))
    /\ batch_inputs' = SubSeq(tensor_ids, batch_start + 1,
                              Min(batch_start + batch_size, Len(tensor_ids)))
    /\ pc' = "generate"
    /\ UNCHANGED <<loopVars, batch_start, batch_decoded_preds, relations,
                   result, cancellation_token>>

\* lines 107-115: is_cancelled() answers no, the batch is cut out
PollNotCancelled ==
    /\ pc = "poll"
    /\ batch_start < Len(tensor_ids)
    /\ ~cancellation_token
    /\ trace' = Append(trace, PollEvent(FALSE))
    /\ batch_inputs' = SubSeq(tensor_ids, batch_start + 1,
                              Min(batch_start + batch_size, Len(tensor_ids)))
    /\ pc' = "generate"
    /\ UNCHANGED <<loopVars, batch_start, batch_decoded_preds, relations,
                   result, cancellation_token>>

\* the cancelled branch hands back what was accumulated
PollCancelledReturnsPartial ==
    /\ pc = "poll"
    /\ batch_start < Len(tensor_ids)
    /\ cancellation_token
    /\ trace' = Append(trace, PollEvent(TRUE))
    /\ result' = [kind |-> "list", value |-> relations]
    /\ pc' = "done"
    /\ UNCHANGED <<loopVars, batch_start, batch_inputs, batch_decoded_preds,
                   relations, cancellation_token>>

\* lines 107, 143-145: is_cancelled() answers yes
PollCancelled ==
    /\ pc = "poll"
    /\ batch_start < Len(tensor_ids)
    /\ cancellation_token
    /\ trace' = Append(trace, PollEvent(TRUE))
    /\ result' = [kind |-> "TimeoutError",
                  value |-> "Task cancelled due to timeout"]
    /\ pc' = "done"
    /\ UNCHANGED <<loopVars, batch_start, batch_inputs, batch_decoded_preds,
                   relations, cancellation_token>>

\* lines 117-126: model.generate answers, batch_decode gives the texts
Generate ==
    /\ pc = "generate"
    /\ \E shift \in 0..MaxShift :
           /\ batch_decoded_preds' = Candidates(Len(batch_inputs), shift)
           /\ trace' = Append(trace,
                    GenerateEvent(Candidates(Len(batch_inputs), shift)))
    /\ pc' = "process"
    /\ UNCHANGED <<loopVars, batch_start, batch_inputs, relations, result,
                   cancellation_token>>

\* the failure is swallowed and the loop goes on with the next batch
GenerateRaisesSkipsBatch ==
    /\ pc = "generate"
    /\ trace' = Append(trace, GenerateEvent(<<>>))
    /\ batch_start' = batch_start + batch_size
    /\ pc' = "poll"
    /\ UNCHANGED <<loopVars, batch_inputs, batch_decoded_preds, relations,
                   result, cancellation_token>>

\* lines 117-121: model.generate raises, nothing catches it
GenerateRaises ==
    /\ pc = "generate"
    /\ trace' = Append(trace, GenerateEvent(<<>>))
    /\ result' = [kind |-> "raised", value |-> "generate"]
    /\ pc' = "done"
    /\ UNCHANGED <<loopVars, batch_start, batch_inputs, batch_decoded_preds,
                   relations, cancellation_token>>

\* the range advances by one window instead of one batch
ProcessBatchStepOne ==
    /\ pc = "process"
    /\ relations' = relations \o ProcessFrom(batch_inputs,
                                              batch_decoded_preds, 0)
    /\ batch_start' = batch_start + 1
    /\ pc' = "poll"
    /\ UNCHANGED <<loopVars, batch_inputs, batch_decoded_preds, result,
                   cancellation_token, trace>>

\* the token is looked at again before the batch's relations are added
ProcessBatchUnlessCancelled ==
    /\ pc = "process"
    /\ IF cancellation_token
       THEN /\ result' = [kind |-> "TimeoutError",
                          value |-> "Task cancelled due to timeout"]
            /\ pc' = "done"
            /\ UNCHANGED <<relations, batch_start>>
       ELSE /\ relations' = relations \o ProcessFrom(batch_inputs,
                                                      batch_decoded_preds, 0)
            /\ batch_start' = batch_start + batch_size
            /\ pc' = "poll"
            /\ result' = result
    /\ UNCHANGED <<loopVars, batch_inputs, batch_decoded_preds,
                   cancellation_token, trace>>

\* lines 129-142, then the next value of the range at line 106
ProcessBatch ==
    /\ pc = "process"
    /\ relations' = relations \o ProcessFrom(batch_inputs,
                                              batch_decoded_preds, 0)
    /\ batch_start' = batch_start + batch_size
    /\ pc' = "poll"
    /\ UNCHANGED <<loopVars, batch_inputs, batch_decoded_preds, result,
                   cancellation_token, trace>>

\* the range stops one batch early
ReturnRelationsOneBatchEarly ==
    /\ pc = "poll"
    /\ batch_start + batch_size >= Len(tensor_ids)
    /\ result' = [kind |-> "list", value |-> relations]
    /\ pc' = "done"
    /\ UNCHANGED <<loopVars, batch_start, batch_inputs, batch_decoded_preds,
                   relations, cancellation_token, trace>>

\* lines 106, 147-151: the range is exhausted
ReturnRelations ==
    /\ pc = "poll"
    /\ batch_start >= Len(tensor_ids)
    /\ result' = [kind |-> "list", value |-> relations]
    /\ pc' = "done"
    /\ UNCHANGED <<loopVars, batch_start, batch_inputs, batch_decoded_preds,
                   relations, cancellation_token, trace>>

\* the external actor sets the token
Cancel ==
    /\ pc # "done"
    /\ ~cancellation_token
    /\ cancellation_token' = TRUE
    /\ UNCHANGED <<extract, pc, inputs, span_length, num_tokens, num_spans,
                   overlap, spans_boundaries, start, i, tensor_ids, batch_size,
                   batch_start, batch_inputs, batch_decoded_preds, relations,
                   result, trace>>

\* <<num_tokens, span_length>> of the documents: the small ones, the
\* 300-token scenario and the first length that needs three spans of 256
Docs ==
    ((0..MaxTokens) \X (1..MaxSpanLength)) \cup {<<300, 256>>, <<513, 256>>}

Init ==
    /\ extract = IdleFrame
    /\ pc = "plan"
    /\ \E d \in Docs :
           /\ inputs = TokenIds(d[1])
           /\ span_length = d[2]
    /\ batch_size \in 1..MaxBatchSize
    /\ num_tokens = 0
    /\ num_spans = 0
    /\ overlap = 0
    /\ spans_boundaries = <<>>
    /\ start = 0
    /\ i = 0
    /\ tensor_ids = <<>>
    /\ batch_start = 0
    /\ batch_inputs = <<>>
    /\ batch_decoded_preds = <<>>
    /\ relations = <<>>
    /\ result = [kind |-> "none", value |-> <<>>]
    /\ cancellation_token = FALSE
    /\ trace = <<>>

Next ==
    \/ ComputeSpans
    \/ AppendSpan
    \/ SliceWindows
    \/ PollNotCancelled
    \/ PollCancelled
    \/ Generate
    \/ GenerateRaises
    \/ ProcessBatch
    \/ ReturnRelations
    \/ Cancel

Spec == Init /\ [][Next]_vars

----------------------------------------------------------------------------
(* Claims about the parser, checked under SpecParser *)

IsMarker(tok) == tok \in {TRIPLET, SUBJ, OBJ}

\* C12: the empty stream and every stream without a control marker give the
\* empty list; their tokens reach no buffer.
C12_NoMarkerNoTriplet ==
    (\A k \in 1..Len(extract.tokens) : ~IsMarker(extract.tokens[k])) =>
        /\ extract.relations = <<>>
        /\ extract.subject = <<>>
        /\ extract.relation = <<>>
        /\ extract.object_ = <<>>

\* a stream of several ordinary tokens was read to its end
C12_Witness ==
    /\ extract.pc = "returned"
    /\ Len(extract.tokens) >= 2
    /\ \A k \in 1..Len(extract.tokens) : ~IsMarker(extract.tokens[k])
    /\ extract.relations = <<>>

\* the step reads the token tok
Reads(tok) ==
    /\ extract.pc = "loop"
    /\ extract.pos <= Len(extract.tokens)
    /\ extract.tokens[extract.pos] = tok
    /\ extract'.pos = extract.pos + 1

\* C14: reading <subj> leaves relationType and subject as they are, emits
\* the pending triplet exactly when relationType is non-empty, clears
\* object and sets the mode; ordinary tokens read in that mode leave
\* relationType alone, so each further <subj> emits a triplet of that type.
C14_SubjKeepsRelation ==
    [][/\ Reads(SUBJ) =>
            /\ extract'.relation = extract.relation
            /\ extract'.subject = extract.subject
            /\ extract'.object_ = <<>>
            /\ extract'.current = "s"
            /\ extract.relation = <<>> =>
                   extract'.relations = extract.relations
            /\ extract.relation # <<>> =>
                   /\ Len(extract'.relations) = Len(extract.relations) + 1
                   /\ extract'.relations[Len(extract'.relations)].type
                          = StripStr(extract.relation)
       /\ (extract.pc = "loop" /\ extract.current = "s"
              /\ extract'.current = "s") =>
            extract'.relation = extract.relation
      ]_vars

\* "<obj> A <subj> A <subj>": both <subj> emitted a triplet of type A
C14_Witness ==
    /\ extract.pc = "returned"
    /\ extract.tokens = <<OBJ, <<"A">>, SUBJ, <<"A">>, SUBJ>>
    /\ Len(extract.relations) = 2
    /\ extract.relations[1].type = <<"A">>
    /\ extract.relations[2].type = <<"A">>
    /\ extract.relations[2].tail = <<"A">>

\* the position of the first marker after k, Len(tokens) + 1 if none
NextMarker(tokens, k) ==
    LET later == {m \in (k + 1)..Len(tokens) : IsMarker(tokens[m])}
    IN  IF later = {} THEN Len(tokens) + 1
        ELSE CHOOSE m \in later : \A q \in later : m <= q

\* the position of the last <triplet> before k
GroupStart(tokens, k) ==
    CHOOSE m \in 1..(k - 1) :
        /\ tokens[m] = TRIPLET
        /\ \A q \in (m + 1)..(k - 1) : tokens[q] # TRIPLET

\* groups of <triplet> H followed by one or more <subj> T <obj> R, every
\* H, T and R a non-empty run of ordinary tokens
WellFormedGroups(tokens) ==
    /\ tokens # <<>>
    /\ tokens[1] = TRIPLET
    /\ \A m \in 1..Len(tokens) :
          IsMarker(tokens[m]) =>
              LET n == NextMarker(tokens, m)
              IN  /\ n > m + 1
                  /\ tokens[m] = TRIPLET =>
                         n <= Len(tokens) /\ tokens[n] = SUBJ
                  /\ tokens[m] = SUBJ =>
                         n <= Len(tokens) /\ tokens[n] = OBJ
                  /\ tokens[m] = OBJ =>
                         n > Len(tokens) \/ tokens[n] \in {SUBJ, TRIPLET}

\* the triplet of the pair whose <subj> is at position s
PairTriplet(tokens, s) ==
    LET o == NextMarker(tokens, s)
        t == GroupStart(tokens, s)
    IN  [head |-> JoinSp(SubSeq(tokens, t + 1, NextMarker(tokens, t) - 1)),
         type |-> JoinSp(SubSeq(tokens, o + 1, NextMarker(tokens, o) - 1)),
         tail |-> JoinSp(SubSeq(tokens, s + 1, o - 1))]

\* one triplet per <subj>, in stream order
PairTriplets(tokens) ==
    LET subjs == {k \in 1..Len(tokens) : tokens[k] = SUBJ}
        nth(j) == CHOOSE k \in subjs :
                      Cardinality({q \in subjs : q <= k}) = j
    IN  [j \in 1..Cardinality(subjs) |-> PairTriplet(tokens, nth(j))]

\* C19: for a stream of well-formed groups the parser returns exactly one
\* triplet per <subj> T <obj> R pair, in stream order, with the head of
\* the pair's group, its own tail and its own type.
C19_OneTripletPerPair ==
    (extract.pc = "returned" /\ WellFormedGroups(extract.tokens)) =>
        extract.relations = PairTriplets(extract.tokens)

\* two groups, the first with two pairs: three triplets, the third with
\* another head than the first two
C19_Witness ==
    /\ extract.pc = "returned"
    /\ extract.tokens = Group(<<"A">>, 2, 0) \o Group(<<"B">>, 1, 1)
    /\ Len(extract.relations) = 3
    /\ extract.relations[1] = [head |-> <<"A">>, type |-> <<"A">>,
                                tail |-> <<"B">>]
    /\ extract.relations[2] = [head |-> <<"A">>, type |-> <<"B">>,
                                tail |-> <<"A">>]
    /\ extract.relations[3] = [head |-> <<"B">>, type |-> <<"B">>,
                                tail |-> <<"A">>]

\* C2: every triplet the parser emits has a non-empty head, a non-empty
\* type and a non-empty tail, whichever flush emitted it.
C2_NoPartialTriplet ==
    \A k \in 1..Len(extract.relations) :
        /\ extract.relations[k].head # <<>>
        /\ extract.relations[k].type # <<>>
        /\ extract.relations[k].tail # <<>>

\* tokens is <triplet> H <subj> T <obj> R with the markers at 1, s and o
\* and non-empty runs of ordinary tokens between and after them
RoundTripShape(tokens, s, o) ==
    /\ 2 < s /\ s + 1 < o /\ o < Len(tokens)
    /\ tokens[1] = TRIPLET /\ tokens[s] = SUBJ /\ tokens[o] = OBJ
    /\ \A k \in 1..Len(tokens) : k \notin {1, s, o} => ~IsMarker(tokens[k])

\* C7: parsing <triplet> H <subj> T <obj> R returns exactly one triplet,
\* head H, tail T and type R, each joined by single blanks.
C7_RoundTrip ==
    extract.pc = "returned" =>
        \A s, o \in 1..Len(extract.tokens) :
            RoundTripShape(extract.tokens, s, o) =>
                extract.relations =
                    << [head |-> JoinSp(SubSeq(extract.tokens, 2, s - 1)),
                        type |-> JoinSp(SubSeq(extract.tokens, o + 1,
                                               Len(extract.tokens))),
                        tail |-> JoinSp(SubSeq(extract.tokens, s + 1, o - 1))] >>

\* the decoded stream "<s><triplet> A B <subj> B <obj> A</s><pad>" was parsed
C7_Witness ==
    /\ extract.pc = "returned"
    /\ extract.tokens = RoundTrip(<< <<"A">>, <<"B">> >>, << <<"B">> >>,
                                  << <<"A">> >>)
    /\ extract.text # JoinSp(extract.tokens)
    /\ extract.relations = << [head |-> <<"A", SP, "B">>,
                               type |-> <<"A">>,
                               tail |-> <<"B">>] >>

BuffersFull(f) == f.subject # <<>> /\ f.relation # <<>> /\ f.object_ # <<>>

\* C8: the step taken at end of stream appends exactly the one triplet
\* (subject, relationType, object) when all three buffers are non-empty and
\* appends nothing otherwise.
C8_EndFlush ==
    [][(extract.pc = "loop" /\ extract'.pc = "returned") =>
          /\ extract.pos > Len(extract.tokens)
          /\ BuffersFull(extract) =>
                 /\ Len(extract'.relations) = Len(extract.relations) + 1
                 /\ SubSeq(extract'.relations, 1, Len(extract.relations))
                        = extract.relations
                 /\ extract'.relations[Len(extract'.relations)]
                        = [head |-> StripStr(extract.subject),
                           type |-> StripStr(extract.relation),
                           tail |-> StripStr(extract.object_)]
          /\ ~BuffersFull(extract) => extract'.relations = extract.relations
      ]_vars

\* a stream that ends inside a triplet, after an earlier one was emitted,
\* with all three buffers filled: the final flush added the second triplet
C8_Witness ==
    /\ extract.pc = "returned"
    /\ BuffersFull(extract)
    /\ ~IsMarker(extract.tokens[Len(extract.tokens)])
    /\ Len(extract.relations) = 2
    /\ extract.relations[2] = Triplet(extract)

----------------------------------------------------------------------------
(* Claims about run_relation_extraction, checked under Spec *)

\* the span loop has finished
Planned == pc \notin {"idle", "plan", "spans"}

\* C1: the planned boundaries, clamped to [0, num_tokens), cover every
\* token index of a non-empty document.
C1_Coverage ==
    (Planned /\ num_tokens > 0 /\ span_length > 0) =>
        \A t \in 0..(num_tokens - 1) :
            \E k \in 1..Len(spans_boundaries) :
                /\ Max(spans_boundaries[k][1], 0) <= t
                /\ t < Min(spans_boundaries[k][2], num_tokens)

\* the model.generate calls made so far, in order
Generates == SelectSeq(trace, LAMBDA e : e.op = "generate")

\* window w (from 0) of the document, cut at its planned boundary
Window(w) ==
    PySlice(inputs, spans_boundaries[w + 1][1], spans_boundaries[w + 1][2])

Fragment(relation) ==
    [head |-> relation.head, type |-> relation.type, tail |-> relation.tail]

RECURSIVE ParsedFrom(_, _)
\* the triplets of the candidates preds[k + 1 ..], in order
ParsedFrom(preds, k) ==
    IF k >= Len(preds) THEN <<>>
    ELSE extract_relations_from_model_output(preds[k + 1])
             \o ParsedFrom(preds, k + 1)

RECURSIVE ParsedOfCalls(_, _)
\* the triplets of every candidate of the calls events[j ..], in order
ParsedOfCalls(events, j) ==
    IF j > Len(events) THEN <<>>
    ELSE ParsedFrom(events[j].preds, 0) \o ParsedOfCalls(events, j + 1)

\* the calls are those of the first k batches, every one answered in full
FirstBatches(events, k) ==
    /\ Len(events) = k
    /\ \A j \in 1..k :
          /\ events[j].batch_start = (j - 1) * batch_size
          /\ Len(events[j].preds) =
                 num_return_sequences
                    * (Min(j * batch_size, num_spans) - (j - 1) * batch_size)

\* C3: a token found set at the poll after k completed batches: generate
\* was invoked exactly k times, the candidates of exactly those k batches
\* were parsed, and the call reports the cancellation, not a list.
C3_CancelBetweenBatches ==
    [][(/\ pc = "poll"
        /\ cancellation_token
        /\ batch_start < Len(tensor_ids)
        /\ pc' # "poll") =>
          /\ pc' = "done"
          /\ result'.kind = "TimeoutError"
          /\ FirstBatches(Generates', batch_start \div batch_size)
          /\ [r \in 1..Len(relations') |-> Fragment(relations'[r])]
                 = ParsedOfCalls(Generates', 1)
      ]_vars

\* cancelled after one batch out of several: one call, its relations kept
\* in the local list, a TimeoutError handed back
C3_Witness ==
    /\ pc = "done"
    /\ result.kind = "TimeoutError"
    /\ Len(Generates) = 1
    /\ relations # <<>>
    /\ Len(tensor_ids) > batch_size

\* C4: the call ends with the list of the triplets of every candidate of
\* every window, or with an outcome that is no list.
C4_AllOrNothing ==
    /\ pc # "done" => result.kind = "none"
    /\ pc = "done" => result.kind \in {"list", "TimeoutError", "raised"}
    /\ result.kind = "list" =>
          /\ FirstBatches(Generates, Ceil(num_spans, batch_size))
          /\ [r \in 1..Len(result.value) |-> Fragment(result.value[r])]
                 = ParsedOfCalls(Generates, 1)

\* a list returned after three batches
C4_Witness ==
    /\ pc = "done"
    /\ result.kind = "list"
    /\ Len(Generates) = 3
    /\ Len(result.value) > 0

\* C5: every generate call directly follows a poll for the same batch that
\* answered not cancelled, and no generate call follows a poll that
\* answered cancelled.
C5_PollBeforeGenerate ==
    \A j \in 1..Len(trace) :
        /\ trace[j].op = "generate" =>
              /\ j > 1
              /\ trace[j - 1].op = "poll"
              /\ trace[j - 1].batch_start = trace[j].batch_start
              /\ ~trace[j - 1].cancelled
        /\ (trace[j].op = "poll" /\ trace[j].cancelled) =>
              \A m \in (j + 1)..Len(trace) : trace[m].op # "generate"

\* two batches were generated, then a poll answered cancelled
C5_Witness ==
    /\ Len(trace) = 5
    /\ trace[2].op = "generate"
    /\ trace[4].op = "generate"
    /\ trace[5].op = "poll"
    /\ trace[5].cancelled

RECURSIVE InfoFrom(_, _)
\* for the candidates e.preds[k + 1 ..]: per triplet, the decoded text of
\* window e.batch_start + (k div num_return_sequences)
InfoFrom(e, k) ==
    IF k >= Len(e.preds) THEN <<>>
    ELSE [r \in 1..Len(extract_relations_from_model_output(e.preds[k + 1]))
             |-> Decode(Window(e.batch_start + (k \div num_return_sequences)))]
         \o InfoFrom(e, k + 1)

RECURSIVE InfoOfCalls(_, _)
InfoOfCalls(events, j) ==
    IF j > Len(events) THEN <<>>
    ELSE InfoFrom(events[j], 0) \o InfoOfCalls(events, j + 1)

\* C6: in a returned list every relation's meta.information is the decoded
\* text of window b + (i div num_return_sequences), b the batch start and
\* i the position of its candidate in the batch's output.
C6_MetaIsSourceWindow ==
    result.kind = "list" =>
        [r \in 1..Len(result.value) |-> result.value[r].meta.information]
            = InfoOfCalls(Generates, 1)

\* a list from batches of two windows whose last relation carries the text
\* of the last window, another text than the first relation's
C6_Witness ==
    /\ result.kind = "list"
    /\ batch_size = 2
    /\ Len(Generates) >= 2
    /\ Len(result.value) > 1
    /\ result.value[Len(result.value)].meta.information
          = Decode(Window(num_spans - 1))
    /\ result.value[1].meta.information
          # result.value[Len(result.value)].meta.information

\* C9 as stated: one boundary [0, span_length) and overlap 0 whenever
\* 0 < num_tokens <= span_length.
C9_OneSpanOverlapZero ==
    (Planned /\ 0 < num_tokens /\ num_tokens <= span_length) =>
        /\ spans_boundaries = << <<0, span_length>> >>
        /\ overlap = 0

\* C9 amended: one boundary [0, span_length), and the overlap computed is
\* span_length - num_tokens, which is 0 only when the two are equal.
C9_OneSpanOverlapIsSlack ==
    (Planned /\ 0 < num_tokens /\ num_tokens <= span_length) =>
        /\ num_spans = 1
        /\ spans_boundaries = << <<0, span_length>> >>
        /\ overlap = span_length - num_tokens

\* a document shorter than one span was planned
C9_Witness ==
    /\ Planned
    /\ 0 < num_tokens /\ num_tokens < span_length
    /\ Len(spans_boundaries) = 1
    /\ overlap > 0

\* C10 as stated: 300 tokens, span_length 256: two spans, overlap 212,
\* boundaries [0, 256) and [-212, 44).
C10_ScenarioAsStated ==
    (Planned /\ num_tokens = 300 /\ span_length = 256) =>
        /\ num_spans = 2
        /\ overlap = 212
        /\ spans_boundaries = << <<0, 256>>, <<-212, 44>> >>

\* C10 amended: two spans, overlap 212, boundaries [0, 256) and [44, 300).
C10_Scenario ==
    (Planned /\ num_tokens = 300 /\ span_length = 256) =>
        /\ num_spans = 2
        /\ overlap = 212
        /\ spans_boundaries = << <<0, 256>>, <<44, 300>> >>

\* the 300-token document was planned with spans of 256
C10_Witness ==
    /\ Planned
    /\ num_tokens = 300 /\ span_length = 256
    /\ Len(spans_boundaries) = 2
    /\ spans_boundaries[2][2] = num_tokens

\* C11: for a non-empty document there are exactly ceil(num_tokens /
\* span_length) boundaries, each span_length wide, and each one after the
\* first starts span_length - overlap after the start of the one before.
C11_CountWidthStride ==
    (Planned /\ num_tokens > 0 /\ span_length > 0) =>
        /\ (Len(spans_boundaries) - 1) * span_length < num_tokens
        /\ num_tokens <= Len(spans_boundaries) * span_length
        /\ \A k \in 1..Len(spans_boundaries) :
              spans_boundaries[k][2] - spans_boundaries[k][1] = span_length
        /\ \A k \in 2..Len(spans_boundaries) :
              spans_boundaries[k][1] - spans_boundaries[k - 1][1]
                 = span_length - overlap

\* three or more spans were planned for a document that fills them exactly
C11_Witness ==
    /\ Planned
    /\ Len(spans_boundaries) >= 3
    /\ num_tokens = Len(spans_boundaries) * span_length
    /\ spans_boundaries[3][1] = 2 * span_length

\* C13 as stated: an empty document yields exactly one window,
\* [0, span_length).
C13_EmptyDocumentOneWindow ==
    (Planned /\ num_tokens = 0) =>
        /\ spans_boundaries = << <<0, span_length>> >>
        /\ Len(tensor_ids) = 1

\* the generate call raised
Failed(e) == e.op = "generate" /\ e.preds = <<>>

NoCallFailed == \A j \in 1..Len(trace) : ~Failed(trace[j])

\* the windows went to generate in consecutive batches of batch_size, the
\* last of 1..batch_size, each window once, one call after the other, in
\* ceil(windows / batch_size) calls
Batched ==
    /\ (Len(Generates) - 1) * batch_size < Len(tensor_ids)
    /\ Len(tensor_ids) <= Len(Generates) * batch_size
    /\ \A j \in 1..Len(Generates) :
          /\ Generates[j].batch_start = (j - 1) * batch_size
          /\ Len(Generates[j].input_ids) >= 1
          /\ Len(Generates[j].input_ids) <= batch_size
          /\ j < Len(Generates) =>
                 Len(Generates[j].input_ids) = batch_size
    /\ Flatten([j \in 1..Len(Generates) |-> Generates[j].input_ids])
          = [w \in 1..Len(spans_boundaries) |-> Window(w - 1)]
    /\ \A j \in 1..(Len(trace) - 1) :
          trace[j].op = "generate" => trace[j + 1].op = "poll"

BatchStarted(j) ==
    /\ j < Len(trace)
    /\ trace[j + 1].op = "generate"
    /\ trace[j + 1].batch_start = trace[j].batch_start
    /\ trace[j + 1].input_ids # <<>>

\* the batch polled at trace[j] was generated in full
BatchDone(j) ==
    /\ BatchStarted(j)
    /\ Len(trace[j + 1].preds)
          = num_return_sequences * Len(trace[j + 1].input_ids)

\* the relations of every candidate that generate answered with were added
AllAdded ==
    [r \in 1..Len(relations) |-> Fragment(relations[r])]
        = ParsedOfCalls(Generates, 1)

\* the token was set, and no poll saw it: it was set after the last poll
SetAfterLastPoll ==
    /\ cancellation_token
    /\ Len(tensor_ids) > 0
    /\ \A j \in 1..Len(trace) : ~trace[j].cancelled
    /\ \E j \in 1..Len(trace) :
          /\ trace[j].op = "poll"
          /\ trace[j].batch_start + batch_size >= Len(tensor_ids)

ReturnedInFull ==
    /\ result.kind = "list"
    /\ FirstBatches(Generates, Ceil(num_spans, batch_size))
    /\ result.value = relations

C17_FailurePropagates ==
    /\ \A j \in 1..Len(trace) :
          Failed(trace[j]) =>
              /\ j = Len(trace)
              /\ pc = "done"
              /\ result.kind = "raised"
              /\ result.value = "generate"
    /\ \A j, m \in 1..Len(Generates) :
          j # m => Generates[j].batch_start # Generates[m].batch_start

\* the second of three or more batches failed
C17_Witness ==
    /\ pc = "done"
    /\ result.kind = "raised"
    /\ Len(Generates) = 2
    /\ Failed(trace[Len(trace)])
    /\ relations # <<>>
    /\ batch_start + batch_size < Len(tensor_ids)

\* C18: with two or more spans every boundary lies inside the document,
\* the starts increase strictly, and every window has span_length tokens.
C18_SpansInsideDocument ==
    (Planned /\ span_length > 0 /\ num_tokens > span_length) =>
        /\ Len(spans_boundaries) >= 2
        /\ \A k \in 1..Len(spans_boundaries) :
              /\ 0 <= spans_boundaries[k][1]
              /\ spans_boundaries[k][2] <= num_tokens
              /\ Len(tensor_ids[k]) = span_length
        /\ \A k \in 2..Len(spans_boundaries) :
              spans_boundaries[k - 1][1] < spans_boundaries[k][1]

\* three or more overlapping spans, the last one ending before the
\* document does
C18_Witness ==
    /\ Planned
    /\ Len(spans_boundaries) >= 3
    /\ overlap > 0
    /\ spans_boundaries[Len(spans_boundaries)][2] < num_tokens
    /\ Len(tensor_ids[Len(tensor_ids)]) = span_length

====
